---- MODULE Spec2Model ----
(***************************************************************************)
(* Model of the cstr-enum derive macros (cstr-enum-derive/src/lib.rs):     *)
(* the two derive entry points derive_ascstr_enum / derive_fromcstr_enum,  *)
(* the shared name-mapping pass get_name_mapping with the per-variant      *)
(* attribute parser VariantMeta, and the as_cstr / from_cstr functions the *)
(* macros emit.  Text is modelled as sequences of byte values.             *)
(***************************************************************************)
EXTENDS Integers, Sequences, FiniteSets, TLC

VARIABLES input, asImpl, fromImpl, call

vars == <<input, asImpl, fromImpl, call>>

(***************************************************************************)
(* Bounds of the model.                                                    *)
(***************************************************************************)
\* most variants of an enum in the broad input family
MaxVariants == 2
\* longest override literal / longest C string passed to from_cstr
MaxNameLen == 2
\* most attributes on the richly annotated variant of the deep input family
MaxAttrs == 2
\* most nested items, in total, on that variant
MaxItems == 2

(***************************************************************************)
(* Bytes.                                                                  *)
(***************************************************************************)
\* the nul byte pushed by name.push('\0') and s.push('\0')
NUL == 0
\* the letters of the modelled texts: 65 is 'A', 97 is 'a'
Upper == {65}
Lower == {97}

\* identifiers of the variants, by declaration position (distinct, as rustc
\* requires of the variants of one enum)
IdentPool == << <<97, 65>>, <<97>>, <<65>>, <<65, 97>>, <<65, 65>>, <<97, 97>> >>

SeqsUpTo(S, n) == UNION {[1..k -> S] : k \in 0..n}

\* values of string literals given to name = "..."
LitTexts == SeqsUpTo({NUL} \cup Lower, MaxNameLen)

\* contents of the &CStr handed to from_cstr (a CStr holds no interior nul)
CStrInputs == SeqsUpTo(Upper \cup Lower, MaxNameLen)

(***************************************************************************)
(* Diagnostics: the message texts of the macro crate.                      *)
(***************************************************************************)
MisplacedAttribute == "attribute must be placed on variants"
NonEnumTarget == "target must be an enum"
VariantHasFields == "variant cannot have fields"
DuplicateArgument == "duplicate named argument"
EmbeddedTerminatorByte == "string cannot contain nul bytes"
TypeMismatchLiteral == "expected string literal"
UnknownArgument == "invalid named argument"
ExpectedNamedArgument == "expected named argument (KEY = VALUE)"
\* (the source quotes cstr(...) with backquotes)
MissingArguments == "missing arguments: expected cstr(...)"

\* a source location: variant index (0: the type itself), attribute index,
\* nested item index, and the token the error is spanned to
Span(v, a, n, part) == [v |-> v, a |-> a, n |-> n, part |-> part]
CallSite == Span(0, 0, 0, "call_site")

Diag(msg, at) == [msg |-> msg, at |-> at]
NoDiag == Diag("", CallSite)

(***************************************************************************)
(* Syntax of the derive input.                                             *)
(***************************************************************************)
StrLit(t) == [kind |-> "Str", value |-> t]
IntLit == [kind |-> "Int", value |-> <<>>]

\* KEY = VALUE inside #[cstr(...)]
NameValue(key, lit) == [kind |-> "NameValue", key |-> key, lit |-> lit]
\* a nested item that is no KEY = VALUE, as in #[cstr(name)]
BareItem == [kind |-> "Path", key |-> "name", lit |-> IntLit]

\* #[cstr(item, ...)]
CstrList(items) == [path |-> "cstr", kind |-> "List", nested |-> items]
\* #[cstr]
CstrPath == [path |-> "cstr", kind |-> "Path", nested |-> <<>>]
\* some other attribute, such as #[doc = "..."]
OtherAttr == [path |-> "doc", kind |-> "Path", nested |-> <<>>]

Variant(ident, fields, attrs, disc) ==
    [ident |-> ident, fields |-> fields, attrs |-> attrs, discriminant |-> disc]

NestedItems ==
    {NameValue("name", StrLit(t)) : t \in LitTexts}
        \cup {NameValue("name", IntLit), NameValue("rename", StrLit(<<97>>)), BareItem}

(***************************************************************************)
(* VariantMeta: the per-variant options, name : Option<LitByteStr>.        *)
(***************************************************************************)
None == [some |-> FALSE, val |-> <<>>]
Some(x) == [some |-> TRUE, val |-> x]

\* VariantMeta::default()
VariantMetaDefault == [name |-> None]

\* Result<VariantMeta> of the parsing steps
MetaOk(opts) == [ok |-> TRUE, opts |-> opts, err |-> NoDiag]
MetaErr(msg, at) == [ok |-> FALSE, opts |-> VariantMetaDefault, err |-> Diag(msg, at)]

\* CStr::from_bytes_with_nul(bytes).is_err(): the first nul byte of bytes
\* must exist and be its last byte
FromBytesWithNulIsErrLastOnly(bytes) ==
    ~(Len(bytes) > 0 /\ bytes[Len(bytes)] = NUL)

FromBytesWithNulIsErr(bytes) ==
    LET nuls == {i \in 1..Len(bytes) : bytes[i] = NUL}
    IN  \/ nuls = {}
        \/ \E i \in nuls : i # Len(bytes)

\* VariantMeta::check_not_set: TRUE when the field has not been set before
CheckNotSetAlways(field) == TRUE

CheckNotSet(field) == ~field.some

\* VariantMeta::parse_nv on the item at source location (v, a, n)
ParseNvLenient(self, nv, v, a, n) ==
    IF nv.key = "name"
    THEN IF ~CheckNotSet(self.name)
         THEN MetaErr(DuplicateArgument, Span(v, a, n, "key"))
         ELSE IF nv.lit.kind = "Str"
              THEN LET name == Append(nv.lit.value, NUL)
                   IN  IF FromBytesWithNulIsErr(name)
                       THEN MetaErr(EmbeddedTerminatorByte, Span(v, a, n, "lit"))
                       ELSE MetaOk([self EXCEPT !.name = Some(name)])
              ELSE MetaErr(TypeMismatchLiteral, Span(v, a, n, "lit"))
    ELSE MetaOk(self)

ParseNv(self, nv, v, a, n) ==
    IF nv.key = "name"
    THEN IF ~CheckNotSet(self.name)
         THEN MetaErr(DuplicateArgument, Span(v, a, n, "key"))
         ELSE IF nv.lit.kind = "Str"
              THEN LET name == Append(nv.lit.value, NUL)
                   IN  IF FromBytesWithNulIsErr(name)
                       THEN MetaErr(EmbeddedTerminatorByte, Span(v, a, n, "lit"))
                       ELSE MetaOk([self EXCEPT !.name = Some(name)])
              ELSE MetaErr(TypeMismatchLiteral, Span(v, a, n, "lit"))
    ELSE MetaErr(UnknownArgument, Span(v, a, n, "key"))

\* the loop of parse_meta over nvs.nested, from item n on
RECURSIVE ParseNested(_, _, _, _, _)
ParseNested(self, nested, v, a, n) ==
    IF n > Len(nested)
    THEN MetaOk(self)
    ELSE IF nested[n].kind = "NameValue"
         THEN LET r == ParseNv(self, nested[n], v, a, n)
              IN  IF r.ok THEN ParseNested(r.opts, nested, v, a, n + 1) ELSE r
         ELSE MetaErr(ExpectedNamedArgument, Span(v, a, n, "item"))

\* VariantMeta::parse_meta on attribute a of variant v
ParseMeta(self, meta, v, a) ==
    IF meta.kind = "List"
    THEN ParseNested(self, meta.nested, v, a, 1)
    ELSE MetaErr(MissingArguments, Span(v, a, 0, "attr"))

\* the loop of from_attrs, from attribute a on
RECURSIVE FromAttrsLoop(_, _, _, _)
FromAttrsLoop(opts, attrs, v, a) ==
    IF a > Len(attrs)
    THEN MetaOk(opts)
    ELSE IF attrs[a].path = "cstr"
         THEN LET r == ParseMeta(opts, attrs[a], v, a)
              IN  IF r.ok THEN FromAttrsLoop(r.opts, attrs, v, a + 1) ELSE r
         ELSE FromAttrsLoop(opts, attrs, v, a + 1)

\* VariantMeta::from_attrs on the attributes of variant v
FromAttrs(attrs, v) == FromAttrsLoop(VariantMetaDefault, attrs, v, 1)

\* ident_to_byte_str_lit
IdentToByteStrLitBare(ident) == ident

IdentToByteStrLit(ident) == Append(ident, NUL)

\* check_enum_attrs: the location of the first cstr attribute on the type,
\* 0 when there is none
CheckEnumAttrsFirstOnly(attrs) ==
    IF Len(attrs) > 0 /\ attrs[1].path = "cstr" /\ attrs[1].kind = "List" THEN 1 ELSE 0

CheckEnumAttrs(attrs) ==
    LET hits == {a \in 1..Len(attrs) : attrs[a].path = "cstr"}
    IN  IF hits = {} THEN 0 ELSE CHOOSE a \in hits : \A b \in hits : a <= b

\* variant.fields != syn::Fields::Unit
FieldsNotUnitNamedOnly(fields) == fields = "Named"

FieldsNotUnit(fields) == fields # "Unit"

\* Result<(Vec<&Ident>, Vec<LitByteStr>)>
MapOk(idents, bytestrs) ==
    [ok |-> TRUE, idents |-> idents, bytestrs |-> bytestrs, err |-> NoDiag]
MapErr(d) == [ok |-> FALSE, idents |-> <<>>, bytestrs |-> <<>>, err |-> d]

\* the loop of get_name_mapping over the variants, from variant v on
RECURSIVE VariantLoop(_, _, _, _, _)
VariantLoop(variants, unit_variants_only, idents, bytestrs, v) ==
    IF v > Len(variants)
    THEN MapOk(idents, bytestrs)
    ELSE LET variant == variants[v]
         IN  IF unit_variants_only /\ FieldsNotUnit(variant.fields)
             THEN MapErr(Diag(VariantHasFields, Span(v, 0, 0, "variant")))
             ELSE LET opts == FromAttrs(variant.attrs, v)
                  IN  IF ~opts.ok
                      THEN MapErr(opts.err)
                      ELSE VariantLoop(variants, unit_variants_only,
                                       Append(idents, variant.ident),
                                       Append(bytestrs,
                                              IF opts.opts.name.some
                                              THEN opts.opts.name.val
                                              ELSE IdentToByteStrLit(variant.ident)),
                                       v + 1)

\* get_name_mapping
GetNameMappingDataFirst(inp, unit_variants_only) ==
    IF inp.data # "Enum"
    THEN MapErr(Diag(NonEnumTarget, CallSite))
    ELSE IF CheckEnumAttrs(inp.attrs) # 0
         THEN MapErr(Diag(MisplacedAttribute, Span(0, CheckEnumAttrs(inp.attrs), 0, "attr")))
         ELSE VariantLoop(inp.variants, unit_variants_only, <<>>, <<>>, 1)

GetNameMapping(inp, unit_variants_only) ==
    IF CheckEnumAttrs(inp.attrs) # 0
    THEN MapErr(Diag(MisplacedAttribute, Span(0, CheckEnumAttrs(inp.attrs), 0, "attr")))
    ELSE IF inp.data # "Enum"
         THEN MapErr(Diag(NonEnumTarget, CallSite))
         ELSE VariantLoop(inp.variants, unit_variants_only, <<>>, <<>>, 1)

(***************************************************************************)
(* The emitted implementations.                                            *)
(***************************************************************************)
\* what a derive invocation leaves behind: nothing yet, a compile error, or
\* an impl block with its match arms
Pending == [state |-> "pending", arms |-> <<>>, error_msg |-> <<>>, diags |-> <<>>]
CompileError(d) == [state |-> "error", arms |-> <<>>, error_msg |-> <<>>, diags |-> <<d>>]
Emitted(arms, msg) == [state |-> "emitted", arms |-> arms, error_msg |-> msg, diags |-> <<>>]

\* one match arm: the variant identifier and the byte string literal
Arm(ident, val) == [ident |-> ident, val |-> val]

\* &bytes[..bytes.len() - 1]
StripLastKeep(bytes) == bytes

StripLast(bytes) == SubSeq(bytes, 1, Len(bytes) - 1)

\* CStr::to_bytes
ToBytes(cstr) == SubSeq(cstr, 1, Len(cstr) - 1)

\* format!("unexpected string while parsing for {} variant", ident)
ErrorMsg(ident) == <<"unexpected string while parsing for ", ident, " variant">>

\* results of the emitted functions
RetCStr(bytes) == [ok |-> TRUE, variant |-> <<>>, cstr |-> bytes, err |-> <<>>]
RetOk(ident) == [ok |-> TRUE, variant |-> ident, cstr |-> <<>>, err |-> <<>>]
RetErr(msg) == [ok |-> FALSE, variant |-> <<>>, cstr |-> <<>>, err |-> msg]
\* no arm of a match applies (rustc rejects such a match)
NoArm == RetErr(<<"non-exhaustive match">>)

\* an instance of the enum: its variant and the values of its fields
Instance(tag, payload) == [tag |-> tag, payload |-> payload]
NoInstance == Instance(<<>>, 0)

\* the emitted as_cstr: match self { Self::V{..} => CStr(val), ... }
AsCStrFnUnitOnly(arms, self) ==
    LET hits == {i \in 1..Len(arms) : arms[i].ident = self.tag /\ self.payload = 0}
    IN  IF hits = {}
        THEN NoArm
        ELSE RetCStr(arms[CHOOSE i \in hits : \A j \in hits : i <= j].val)

AsCStrFn(arms, self) ==
    LET hits == {i \in 1..Len(arms) : arms[i].ident = self.tag}
    IN  IF hits = {}
        THEN NoArm
        ELSE RetCStr(arms[CHOOSE i \in hits : \A j \in hits : i <= j].val)

\* the emitted from_cstr: match s.to_bytes() { val => Ok(Self::V), ..., _ => Err(msg) }
FromCStrFnLast(arms, error_msg, s) ==
    LET hits == {i \in 1..Len(arms) : arms[i].val = ToBytes(s)}
    IN  IF hits = {}
        THEN RetErr(error_msg)
        ELSE RetOk(arms[CHOOSE i \in hits : \A j \in hits : i >= j].ident)

FromCStrFn(arms, error_msg, s) ==
    LET hits == {i \in 1..Len(arms) : arms[i].val = ToBytes(s)}
    IN  IF hits = {}
        THEN RetErr(error_msg)
        ELSE RetOk(arms[CHOOSE i \in hits : \A j \in hits : i <= j].ident)

\* the arms built by quote!'s #( ... )* repetition over the two vectors
Arms(idents, vals) == [i \in 1..Len(idents) |-> Arm(idents[i], vals[i])]

\* derive_ascstr_enum
DeriveAsCStrEnum(inp) ==
    LET m == GetNameMapping(inp, FALSE)
    IN  IF ~m.ok
        THEN CompileError(m.err)
        ELSE Emitted(Arms(m.idents, m.bytestrs), <<>>)

\* derive_fromcstr_enum
DeriveFromCStrEnum(inp) ==
    LET m == GetNameMapping(inp, TRUE)
    IN  IF ~m.ok
        THEN CompileError(m.err)
        ELSE Emitted(Arms(m.idents, [i \in 1..Len(m.bytestrs) |-> StripLast(m.bytestrs[i])]),
                     ErrorMsg(inp.ident))

(***************************************************************************)
(* The inputs.                                                             *)
(***************************************************************************)
DeriveInput(ident, attrs, data, variants) ==
    [ident |-> ident, attrs |-> attrs, data |-> data, variants |-> variants]

TypeIdents == {"Constants", "Enum0"}

\* attribute lists on the type itself
TypeAttrSets ==
    {<<>>, <<OtherAttr>>, <<CstrPath>>, <<OtherAttr, CstrPath>>}
        \cup {<<CstrList(<<it>>)>> :
                it \in {NameValue("name", StrLit(<<97>>)), NameValue("name", IntLit),
                        NameValue("rename", StrLit(<<97>>))}}

\* attribute lists of at most one attribute holding at most one item
SimpleAttrSets == {<<>>} \cup {<<CstrList(<<it>>)>> : it \in NestedItems}

\* the variants that may stand at declaration position i
VariantChoices(i) ==
    {Variant(IdentPool[i], "Unit", at, 0) : at \in SimpleAttrSets}
        \cup {Variant(IdentPool[i], "Unit", <<>>, 1337)}
        \cup {Variant(IdentPool[i], f, at, 0) :
                f \in {"Unnamed", "Named"},
                at \in {<<>>, <<CstrList(<<NameValue("name", StrLit(<<97>>))>>)>>,
                        <<CstrList(<<NameValue("rename", StrLit(<<97>>))>>)>>}}

RECURSIVE VariantListsOfLen(_)
VariantListsOfLen(n) ==
    IF n = 0
    THEN {<<>>}
    ELSE {Append(vs, v) : vs \in VariantListsOfLen(n - 1), v \in VariantChoices(n)}

\* the broad family: every shape of type and variant, at most one item on
\* each variant
BroadInputs ==
    {DeriveInput(id, at, "Enum", vs) :
        id \in TypeIdents, at \in TypeAttrSets,
        vs \in UNION {VariantListsOfLen(n) : n \in 0..MaxVariants}}
        \cup {DeriveInput(id, at, "Struct", <<>>) : id \in TypeIdents, at \in TypeAttrSets}

\* the items of the deep family: an accepted name, a name with a nul byte,
\* the empty name, a number, an unknown key, a bare word
DeepItems ==
    {NameValue("name", StrLit(t)) : t \in {<<>>, <<97>>, <<97, NUL>>}}
        \cup {NameValue("name", IntLit), NameValue("rename", StrLit(<<97>>)), BareItem}

\* the shape of an attribute list: per attribute its kind and, for a
\* #[cstr(...)] list, its number of items
AttrShapes == {[kind |-> "doc", size |-> 0], [kind |-> "path", size |-> 0]}
                  \cup {[kind |-> "list", size |-> k] : k \in 0..MaxItems}

RECURSIVE ShapeItems(_)
ShapeItems(sh) == IF sh = <<>> THEN 0 ELSE sh[1].size + ShapeItems(Tail(sh))

Shapes == {sh \in SeqsUpTo(AttrShapes, MaxAttrs) : ShapeItems(sh) <= MaxItems}

BuildAttrs(sh, f) ==
    [a \in 1..Len(sh) |->
        IF sh[a].kind = "doc" THEN OtherAttr
        ELSE IF sh[a].kind = "path" THEN CstrPath
        ELSE LET off == ShapeItems(SubSeq(sh, 1, a - 1))
             IN  CstrList(SubSeq(f, off + 1, off + sh[a].size))]

RichAttrSets ==
    UNION {{BuildAttrs(sh, f) : f \in [1..ShapeItems(sh) -> DeepItems]} : sh \in Shapes}

\* the deep family: a unit-only enum whose first variant carries any
\* attribute list within the bounds, alone or followed by a second variant
DeepInputs ==
    {DeriveInput("Enum0", <<>>, "Enum", <<Variant(IdentPool[1], "Unit", at, 0)>> \o rest) :
        at \in RichAttrSets,
        rest \in {<<>>} \cup {<<Variant(IdentPool[2], "Unit", a2, 0)>> :
                                a2 \in {<<>>, <<CstrList(<<NameValue("name", StrLit(<<97>>))>>)>>}}}

\* the instances of the enum: a unit variant has one, a variant with
\* fields one per value of its fields
Instances(inp) ==
    {Instance(inp.variants[i].ident, p) :
        i \in 1..Len(inp.variants), p \in {0, 1}} \
    {Instance(inp.variants[i].ident, 1) :
        i \in {j \in 1..Len(inp.variants) : inp.variants[j].fields = "Unit"}}

(***************************************************************************)
(* The state machine: the compiler expands each derive once, in either     *)
(* order; the program then calls the emitted functions.                    *)
(***************************************************************************)
NoCall == [fn |-> "none", self |-> NoInstance, arg |-> <<>>, ret |-> RetErr(<<>>)]

TypeOK ==
    /\ asImpl.state \in {"pending", "error", "emitted"}
    /\ fromImpl.state \in {"pending", "error", "emitted"}
    /\ call.fn \in {"none", "as_cstr", "from_cstr"}

Init ==
    /\ input \in BroadInputs
    /\ asImpl = Pending
    /\ fromImpl = Pending
    /\ call = NoCall

InitDeep ==
    /\ input \in DeepInputs
    /\ asImpl = Pending
    /\ fromImpl = Pending
    /\ call = NoCall

\* #[derive(AsCStr)]
DeriveAsCStr ==
    /\ asImpl.state = "pending"
    /\ asImpl' = DeriveAsCStrEnum(input)
    /\ UNCHANGED <<input, fromImpl, call>>

\* #[derive(FromCStr)]
DeriveFromCStr ==
    /\ fromImpl.state = "pending"
    /\ fromImpl' = DeriveFromCStrEnum(input)
    /\ UNCHANGED <<input, asImpl, call>>

\* self.as_cstr()
CallAsCStr(self) ==
    /\ asImpl.state = "emitted"
    /\ call' = [fn |-> "as_cstr", self |-> self, arg |-> <<>>,
                ret |-> AsCStrFn(asImpl.arms, self)]
    /\ UNCHANGED <<input, asImpl, fromImpl>>

\* Self::from_cstr(s)
CallFromCStr(s) ==
    /\ fromImpl.state = "emitted"
    /\ call' = [fn |-> "from_cstr", self |-> NoInstance, arg |-> s,
                ret |-> FromCStrFn(fromImpl.arms, fromImpl.error_msg, s)]
    /\ UNCHANGED <<input, asImpl, fromImpl>>

\* Self::from_cstr(v.as_cstr()): the string just returned by as_cstr is
\* parsed back
CallFromCStrOfAsCStr ==
    /\ fromImpl.state = "emitted"
    /\ call.fn = "as_cstr"
    /\ call.ret.ok
    /\ call' = [fn |-> "from_cstr", self |-> call.self, arg |-> call.ret.cstr,
                ret |-> FromCStrFn(fromImpl.arms, fromImpl.error_msg, call.ret.cstr)]
    /\ UNCHANGED <<input, asImpl, fromImpl>>

Next ==
    \/ DeriveAsCStr
    \/ DeriveFromCStr
    \/ \E self \in Instances(input) : CallAsCStr(self)
    \/ \E t \in CStrInputs : CallFromCStr(Append(t, NUL))
    \/ CallFromCStrOfAsCStr

Spec == Init /\ [][Next]_vars

SpecDeep == InitDeep /\ [][Next]_vars

(***************************************************************************)
(* Vocabulary of the properties, read off the input alone.                 *)
(***************************************************************************)
Done(impl) == impl.state # "pending"

VIdx == 1..Len(input.variants)

Min(S) == CHOOSE x \in S : \A y \in S : x <= y

HasNul(t) == \E i \in 1..Len(t) : t[i] = NUL

IsNameKey(it) == it.kind = "NameValue" /\ it.key = "name"

\* positions <<a, n>> of the nested items of the cstr attributes of an
\* attribute list; <<a, 0>> stands for a cstr attribute without arguments
Positions(attrs) ==
    UNION {IF attrs[a].path # "cstr" THEN {}
           ELSE IF attrs[a].kind = "List"
                THEN {<<a, n>> : n \in 1..Len(attrs[a].nested)}
                ELSE {<<a, 0>>} : a \in 1..Len(attrs)}

Before(p, q) == p[1] < q[1] \/ (p[1] = q[1] /\ p[2] < q[2])

ItemAt(attrs, q) == attrs[q[1]].nested[q[2]]

\* the key name was given at an earlier position
Repeated(attrs, q) ==
    /\ q[2] > 0
    /\ IsNameKey(ItemAt(attrs, q))
    /\ \E p \in Positions(attrs) : p[2] > 0 /\ Before(p, q) /\ IsNameKey(ItemAt(attrs, p))

\* the position does not fit the grammar name = "<text without nul>", once
Offending(attrs, q) ==
    \/ q[2] = 0
    \/ ~IsNameKey(ItemAt(attrs, q))
    \/ ItemAt(attrs, q).lit.kind # "Str"
    \/ HasNul(ItemAt(attrs, q).lit.value)
    \/ Repeated(attrs, q)

Faults(attrs) == {q \in Positions(attrs) : Offending(attrs, q)}

FirstFault(attrs) == CHOOSE q \in Faults(attrs) : \A r \in Faults(attrs) : r = q \/ Before(q, r)

\* every cstr attribute is a list of KEY = VALUE pairs
PairsOnly(attrs) ==
    \A q \in Positions(attrs) : q[2] > 0 /\ ItemAt(attrs, q).kind = "NameValue"

\* the text given as name = "...", when the variant has one
NamePositions(attrs) == {q \in Positions(attrs) : q[2] > 0 /\ IsNameKey(ItemAt(attrs, q))}

HasOverride(v) == NamePositions(v.attrs) # {}

OverrideText(v) ==
    ItemAt(v.attrs, CHOOSE q \in NamePositions(v.attrs) :
                        \A r \in NamePositions(v.attrs) : r = q \/ Before(q, r)).lit.value

\* override if present, else the identifier text
ResolvedText(v) == IF HasOverride(v) THEN OverrideText(v) ELSE v.ident

\* the declaration position of the variant called ident
IndexOf(ident) == CHOOSE i \in VIdx : input.variants[i].ident = ident

HasTypeCstrAttr == \E a \in 1..Len(input.attrs) : input.attrs[a].path = "cstr"

FieldVariants == {i \in VIdx : input.variants[i].fields # "Unit"}

\* variants that stop the pass: fields when unit variants are required, or
\* an attribute list with a fault
FaultyVariants(unit_variants_only) ==
    {i \in VIdx : \/ unit_variants_only /\ i \in FieldVariants
                  \/ Faults(input.variants[i].attrs) # {}}

TypeLevelValid == ~HasTypeCstrAttr /\ input.data = "Enum"

ValidatorMessages ==
    {UnknownArgument, TypeMismatchLiteral, DuplicateArgument, EmbeddedTerminatorByte,
     ExpectedNamedArgument, MissingArguments}

ExtractorMessages == {NonEnumTarget, MisplacedAttribute, VariantHasFields}

AttrSpan(v, q, part) == Span(v, q[1], q[2], part)

V(i) == input.variants[i]

\* the variants whose resolved text is that of variant i
Namesakes(i) == {j \in VIdx : ResolvedText(V(j)) = ResolvedText(V(i))}

IsRoundTrip == call.fn = "from_cstr" /\ call.self # NoInstance

(***************************************************************************)
(* C1                                                                      *)
(***************************************************************************)
\* C1, as stated: parsing back the string as_cstr returned for a variant V
\* of a unit-only enum returns Ok(V).
C1_RoundTrip ==
    IsRoundTrip => call.ret = RetOk(call.self.tag)

\* C1, amended: parsing back the string as_cstr returned for V returns
\* Ok(W), W the first variant in declaration order whose resolved name is
\* that of V; it is Ok(V) exactly when no earlier variant shares V's name.
C1_RoundTripFirstNamesake ==
    IsRoundTrip =>
        LET i == IndexOf(call.self.tag)
        IN  /\ call.ret = RetOk(V(Min(Namesakes(i))).ident)
            /\ (call.ret = RetOk(call.self.tag)) <=> (Min(Namesakes(i)) = i)

C1_Witness ==
    /\ IsRoundTrip
    /\ Len(input.variants) >= 2
    /\ HasOverride(V(IndexOf(call.self.tag)))
    /\ call.ret = RetOk(call.self.tag)

(***************************************************************************)
(* C2                                                                      *)
(***************************************************************************)
\* C2: the forward mapping of a variant is its override text if it has a
\* name override, else its identifier text, verbatim, followed by exactly
\* one nul byte, whatever the other variants and the discriminants are.
C2_NameResolution ==
    /\ asImpl.state = "emitted" =>
          /\ Len(asImpl.arms) = Len(input.variants)
          /\ \A i \in VIdx :
                asImpl.arms[i] = Arm(V(i).ident, ResolvedText(V(i)) \o <<NUL>>)
    /\ call.fn = "as_cstr" =>
          call.ret = RetCStr(ResolvedText(V(IndexOf(call.self.tag))) \o <<NUL>>)

C2_Witness ==
    /\ call.fn = "as_cstr"
    /\ HasOverride(V(IndexOf(call.self.tag)))
    /\ \E j \in VIdx : ~HasOverride(V(j)) /\ V(j).discriminant = 1337

(***************************************************************************)
(* C3                                                                      *)
(***************************************************************************)
WellTerminated(b) ==
    /\ Len(b) >= 1
    /\ b[Len(b)] = NUL
    /\ ~HasNul(SubSeq(b, 1, Len(b) - 1))

\* variants with a name literal that holds a nul byte
NulLiteralVariants ==
    {i \in VIdx : \E q \in NamePositions(V(i).attrs) :
        /\ ItemAt(V(i).attrs, q).lit.kind = "Str"
        /\ HasNul(ItemAt(V(i).attrs, q).lit.value)}

\* the input has no fault but nul bytes in name literals
OnlyNulFaults ==
    /\ TypeLevelValid
    /\ \A i \in VIdx : \A q \in Faults(V(i).attrs) :
          /\ q[2] > 0
          /\ IsNameKey(ItemAt(V(i).attrs, q))
          /\ ItemAt(V(i).attrs, q).lit.kind = "Str"
          /\ ~Repeated(V(i).attrs, q)

NulDiag ==
    LET i == Min(NulLiteralVariants)
    IN  Diag(EmbeddedTerminatorByte, AttrSpan(i, FirstFault(V(i).attrs), "lit"))

\* C3: every name of an emitted table ends with one nul byte and has none
\* before it (none at all once from_cstr's table is stripped); an override
\* literal holding a nul byte anywhere makes both derives fail, emitting
\* nothing, with "string cannot contain nul bytes" at that literal when it
\* is the input's only kind of fault.
C3_TerminatorInvariant ==
    /\ asImpl.state = "emitted" => \A i \in VIdx : WellTerminated(asImpl.arms[i].val)
    /\ fromImpl.state = "emitted" => \A i \in VIdx : ~HasNul(fromImpl.arms[i].val)
    /\ NulLiteralVariants # {} =>
          /\ Done(asImpl) => asImpl.state = "error" /\ asImpl.arms = <<>>
          /\ Done(fromImpl) => fromImpl.state = "error" /\ fromImpl.arms = <<>>
    /\ (NulLiteralVariants # {} /\ OnlyNulFaults) =>
          /\ Done(asImpl) => asImpl.diags = <<NulDiag>>
          /\ (Done(fromImpl) /\ FieldVariants = {}) => fromImpl.diags = <<NulDiag>>

C3_Witness ==
    /\ NulLiteralVariants # {}
    /\ asImpl.state = "error" /\ asImpl.diags[1].msg = EmbeddedTerminatorByte
    /\ fromImpl.state = "error" /\ fromImpl.diags[1].msg = EmbeddedTerminatorByte
    /\ \E i \in VIdx : V(i).attrs = <<CstrList(<<NameValue("name", StrLit(<<97, NUL>>))>>)>>

(***************************************************************************)
(* C4                                                                      *)
(***************************************************************************)
\* the variants whose resolved name, without terminator, is the content of s
Matches(s) == {i \in VIdx : ResolvedText(V(i)) = SubSeq(s, 1, Len(s) - 1)}

\* C4: from_cstr(s) returns Ok of the first variant in declaration order
\* whose resolved name equals the content of s byte for byte, and the
\* failure naming the type if there is none.
C4_ReverseMapping ==
    call.fn = "from_cstr" =>
        IF Matches(call.arg) = {}
        THEN call.ret = RetErr(<<"unexpected string while parsing for ", input.ident,
                                 " variant">>)
        ELSE call.ret = RetOk(V(Min(Matches(call.arg))).ident)

C4_Witness ==
    /\ call.fn = "from_cstr"
    /\ call.self = NoInstance
    /\ Cardinality(Matches(call.arg)) >= 2
    /\ call.ret.ok

(***************************************************************************)
(* C5                                                                      *)
(***************************************************************************)
\* C5: where the forward derive succeeds, every declared variant has its
\* arm, and as_cstr returns, for every instance, the name of the arm of the
\* instance's variant, whatever the values of its fields; it never fails.
C5_ForwardTotalTagOnly ==
    /\ asImpl.state = "emitted" =>
          /\ Len(asImpl.arms) = Len(input.variants)
          /\ \A i \in VIdx : asImpl.arms[i].ident = V(i).ident
    /\ call.fn = "as_cstr" =>
          /\ call.ret.ok
          /\ call.ret.cstr = asImpl.arms[IndexOf(call.self.tag)].val

C5_Witness ==
    /\ call.fn = "as_cstr"
    /\ call.self.payload = 1
    /\ V(IndexOf(call.self.tag)).fields = "Named"
    /\ \E j \in VIdx : V(j).fields = "Unnamed"
    /\ call.ret.ok

(***************************************************************************)
(* C6                                                                      *)
(***************************************************************************)
\* no fault is met before variant i: the type is a plain enum and the
\* attributes of the variants declared before i are in order
ValidBefore(i) ==
    /\ TypeLevelValid
    /\ \A j \in 1..(i - 1) : Faults(V(j).attrs) = {}

StopsInAttrsOf(i, unit_variants_only) ==
    /\ TypeLevelValid
    /\ FaultyVariants(unit_variants_only) # {}
    /\ i = Min(FaultyVariants(unit_variants_only))
    /\ ~(unit_variants_only /\ i \in FieldVariants)

\* the diagnostic is "duplicate named argument" at the key of the second
\* name of variant i, when that is where the pass stops
DuplicateReported(impl, unit_variants_only) ==
    \A i \in VIdx :
        (/\ Done(impl)
         /\ StopsInAttrsOf(i, unit_variants_only)
         /\ Repeated(V(i).attrs, FirstFault(V(i).attrs))) =>
            impl.diags =
                <<Diag(DuplicateArgument, AttrSpan(i, FirstFault(V(i).attrs), "key"))>>

\* a reported duplicate lies on a variant that itself has two name keys
DuplicateIsPerVariant(impl) ==
    (impl.state = "error" /\ impl.diags[1].msg = DuplicateArgument) =>
        Cardinality(NamePositions(V(impl.diags[1].at.v).attrs)) >= 2

\* C7: a second name on a variant, after a first accepted one, in the same
\* block or a later one and whatever its value, fails with
\* DuplicateArgument; a name on another variant never counts.
C7_DuplicateKey ==
    /\ DuplicateReported(asImpl, FALSE)
    /\ DuplicateReported(fromImpl, TRUE)
    /\ DuplicateIsPerVariant(asImpl)
    /\ DuplicateIsPerVariant(fromImpl)

C7_Witness ==
    /\ Len(input.variants) = 2
    /\ HasOverride(V(2))
    /\ fromImpl.state = "error"
    /\ fromImpl.diags = <<Diag(DuplicateArgument, Span(1, 2, 1, "key"))>>
    /\ V(1).attrs[2].nested[1].lit.kind = "Int"

(***************************************************************************)
(* C8                                                                      *)
(***************************************************************************)
MisplacedDiag ==
    Diag(MisplacedAttribute,
         Span(0, Min({a \in 1..Len(input.attrs) : input.attrs[a].path = "cstr"}), 0, "attr"))

\* C8: a cstr attribute on the type makes either derive fail with
\* "attribute must be placed on variants", whatever the attribute holds,
\* and nothing is emitted.
C8_MisplacedAttribute ==
    HasTypeCstrAttr =>
        /\ Done(asImpl) =>
              asImpl.state = "error" /\ asImpl.arms = <<>> /\ asImpl.diags = <<MisplacedDiag>>
        /\ Done(fromImpl) =>
              fromImpl.state = "error" /\ fromImpl.arms = <<>>
                  /\ fromImpl.diags = <<MisplacedDiag>>

C8_Witness ==
    /\ input.attrs = <<OtherAttr, CstrPath>>
    /\ input.data = "Struct"
    /\ asImpl.state = "error"
    /\ fromImpl.state = "error"

(***************************************************************************)
(* C9                                                                      *)
(***************************************************************************)
\* the pass stops at a key/value pair of variant i, whose attributes are
\* all lists of key/value pairs
StopsAtPairOf(i, unit_variants_only) ==
    /\ StopsInAttrsOf(i, unit_variants_only)
    /\ PairsOnly(V(i).attrs)

\* C9, as stated: the first offending pair decides: a key other than name
\* gives UnknownArgument, a name with a value that is no string literal
\* gives TypeMismatchLiteral.
ClassifiedAsStated(impl, unit_variants_only) ==
    \A i \in VIdx :
        (Done(impl) /\ StopsAtPairOf(i, unit_variants_only)) =>
            LET it == ItemAt(V(i).attrs, FirstFault(V(i).attrs))
            IN  /\ Len(impl.diags) = 1
                /\ it.key # "name" => impl.diags[1].msg = UnknownArgument
                /\ (it.key = "name" /\ it.lit.kind # "Str") =>
                      impl.diags[1].msg = TypeMismatchLiteral

\* a variant without offending pair yields its single name, or none
OverrideYielded ==
    (asImpl.state = "emitted") =>
        \A i \in VIdx :
            /\ Cardinality(NamePositions(V(i).attrs)) <= 1
            /\ asImpl.arms[i].val =
                  (IF HasOverride(V(i)) THEN OverrideText(V(i)) ELSE V(i).ident) \o <<NUL>>

C9_ValidatorClassification ==
    /\ ClassifiedAsStated(asImpl, FALSE)
    /\ ClassifiedAsStated(fromImpl, TRUE)
    /\ OverrideYielded

\* C9, amended: the first offending pair decides: a key other than name
\* gives UnknownArgument; a name with a value that is no string literal
\* gives TypeMismatchLiteral when no name was accepted before it on the
\* variant, and DuplicateArgument when one was.
Classified(impl, unit_variants_only) ==
    \A i \in VIdx :
        (Done(impl) /\ StopsAtPairOf(i, unit_variants_only)) =>
            LET q == FirstFault(V(i).attrs)
                it == ItemAt(V(i).attrs, q)
            IN  /\ Len(impl.diags) = 1
                /\ impl.diags[1].at.v = i
                /\ impl.diags[1].at.a = q[1]
                /\ impl.diags[1].at.n = q[2]
                /\ it.key # "name" => impl.diags[1].msg = UnknownArgument
                /\ (it.key = "name" /\ it.lit.kind # "Str" /\ ~Repeated(V(i).attrs, q)) =>
                      impl.diags[1].msg = TypeMismatchLiteral
                /\ (it.key = "name" /\ it.lit.kind # "Str" /\ Repeated(V(i).attrs, q)) =>
                      impl.diags[1].msg = DuplicateArgument

C9_ValidatorClassificationFirstName ==
    /\ Classified(asImpl, FALSE)
    /\ Classified(fromImpl, TRUE)
    /\ OverrideYielded

C9_Witness ==
    /\ asImpl.state = "error"
    /\ asImpl.diags = <<Diag(TypeMismatchLiteral, Span(1, 1, 1, "lit"))>>
    /\ Cardinality(Faults(V(1).attrs)) = 2
    /\ \E q \in Faults(V(1).attrs) : ItemAt(V(1).attrs, q).key = "rename"

(***************************************************************************)
(* C10                                                                     *)
(***************************************************************************)
\* the input has a fault of the first stage
ExtractorFault(unit_variants_only) ==
    \/ HasTypeCstrAttr
    \/ input.data # "Enum"
    \/ unit_variants_only /\ FieldVariants # {}

\* exactly one diagnostic and no code, or code and no diagnostic
OneOutcome(impl) ==
    /\ impl.state = "error" => Len(impl.diags) = 1 /\ impl.arms = <<>>
    /\ impl.state = "emitted" => impl.diags = <<>>

\* C10, as stated: an input with a fault of the Schema Extractor is
\* reported with that stage's diagnostic, in preference to any validator or
\* synthesizer error on any variant; one diagnostic, no code.
StageOrder(impl, unit_variants_only) ==
    Done(impl) =>
        /\ OneOutcome(impl)
        /\ ExtractorFault(unit_variants_only) =>
              impl.state = "error" /\ impl.diags[1].msg \in ExtractorMessages

C10_FailFastByStage ==
    /\ StageOrder(asImpl, FALSE)
    /\ StageOrder(fromImpl, TRUE)

\* C10, amended: the diagnostic is that of the first fault in this order:
\* a cstr attribute on the type, a target that is no enum, then variant by
\* variant in declaration order, for each variant its fields (FromCStr
\* only) before its attributes; one diagnostic, no code.
TraversalOrder(impl, unit_variants_only) ==
    Done(impl) =>
        /\ OneOutcome(impl)
        /\ IF HasTypeCstrAttr
           THEN impl.state = "error" /\ impl.diags[1].msg = MisplacedAttribute
           ELSE IF input.data # "Enum"
           THEN impl.state = "error" /\ impl.diags[1] = Diag(NonEnumTarget, CallSite)
           ELSE IF FaultyVariants(unit_variants_only) = {}
           THEN impl.state = "emitted"
           ELSE LET i == Min(FaultyVariants(unit_variants_only))
                IN  /\ impl.state = "error"
                    /\ impl.diags[1].at.v = i
                    /\ IF unit_variants_only /\ i \in FieldVariants
                       THEN impl.diags[1].msg = VariantHasFields
                       ELSE impl.diags[1].msg \in ValidatorMessages

C10_FailFastByTraversal ==
    /\ TraversalOrder(asImpl, FALSE)
    /\ TraversalOrder(fromImpl, TRUE)

C10_Witness ==
    /\ Len(input.variants) = 2
    /\ Faults(V(1).attrs) # {}
    /\ V(2).fields # "Unit"
    /\ fromImpl.state = "error"
    /\ fromImpl.diags[1].msg = UnknownArgument

====
